---- MODULE Spec2Model ----
(***************************************************************************)
(* Model of scripts/collect_nfl_data.py: the weekly-row aggregation        *)
(* (process_players), the players.json construction (create_player_json,   *)
(* main) and the roster-verified analysis (perform_enhanced_analysis).     *)
(*                                                                         *)
(* Python strings are sequences of one-character strings, so that key and  *)
(* id construction (f-strings, replace, lower, upper) is computed as the   *)
(* code computes it.  None and a missing dict key are the one-element      *)
(* sequences None and Absent, whose element is no character.  Optional     *)
(* numbers are records [t |-> "num" | "none" | "absent", n |-> value].     *)
(* One-decimal floating-point values (projected points, scores) are kept   *)
(* as integers in tenths; no input of the model makes a rounding tie that  *)
(* binary floating point would decide differently.                         *)
(***************************************************************************)
EXTENDS Integers, Sequences, FiniteSets, TLC

VARIABLES pc, weekly_data, target_counts, final_players, players_dict,
          database, files, players_data, current_adp_data,
          analysis_results, raised, result

vars == <<pc, weekly_data, target_counts, final_players, players_dict,
          database, files, players_data, current_adp_data,
          analysis_results, raised, result>>

\* ------------------------------------------------------------------ values

None == <<"<None>">>
Absent == <<"<absent>">>

Num(n) == [t |-> "num", n |-> n]
NoneNum == [t |-> "none", n |-> 0]
AbsentNum == [t |-> "absent", n |-> 0]

\* a pandas DataFrame of weekly rows, or None
DataFrame(rows) == [t |-> "frame", rows |-> rows]
NoneFrame == [t |-> "none", rows |-> << >>]

\* `not s` for a str-or-None value
Falsy(s) == s = << >> \/ s = None

\* `v or 0` for a number-or-None value
OrZero(v) == IF v.t = "num" THEN v.n ELSE 0

Range(s) == {s[i] : i \in 1..Len(s)}

RECURSIVE SumSeq(_)
SumSeq(s) == IF s = << >> THEN 0 ELSE s[1] + SumSeq(Tail(s))

Min(a, b) == IF a <= b THEN a ELSE b
Max(a, b) == IF a >= b THEN a ELSE b
Abs(a) == IF a >= 0 THEN a ELSE -a

S_QB == <<"Q", "B">>
S_RB == <<"R", "B">>
S_WR == <<"W", "R">>
S_TE == <<"T", "E">>
S_K == <<"K">>
S_DEF == <<"D", "E", "F">>
S_KC == <<"K", "C">>
S_SF == <<"S", "F">>
S_Unknown == <<"U", "n", "k", "n", "o", "w", "n">>

\* ------------------------------------------------------- process_players

\* unique_key = f"{player_name}_{position}"
unique_key(row) == row.player_name \o <<"_">> \o row.position

\* the accumulator created for a key seen for the first time
new_stats(row) ==
    [player_name |-> row.player_name,
     position |-> row.position,
     team |-> row.recent_team,
     total_fantasy_points |-> 0,
     total_passing_yards |-> 0,
     total_rushing_yards |-> 0,
     total_receiving_yards |-> 0,
     total_passing_tds |-> 0,
     total_rushing_tds |-> 0,
     total_receiving_tds |-> 0,
     games_played |-> 0]

\* stats[...] += row.get(..., 0) or 0; games_played += 1; team = recent_team
add_row(stats, row) ==
    [stats EXCEPT
       !.total_fantasy_points = @ + OrZero(row.fantasy_points_ppr),
       !.total_passing_yards = @ + OrZero(row.passing_yards),
       !.total_rushing_yards = @ + OrZero(row.rushing_yards),
       !.total_receiving_yards = @ + OrZero(row.receiving_yards),
       !.total_passing_tds = @ + OrZero(row.passing_tds),
       !.total_rushing_tds = @ + OrZero(row.rushing_tds),
       !.total_receiving_tds = @ + OrZero(row.receiving_tds),
       !.games_played = @ + 1,
       !.team = row.recent_team]

\* position of key k in an insertion-ordered dict (a sequence of entries), 0 if absent
KeyIndex(d, k) ==
    IF \E i \in 1..Len(d) : d[i].key = k
    THEN CHOOSE i \in 1..Len(d) : d[i].key = k
    ELSE 0

\* "Skip invalid entries"
skip_row(row) ==
    Falsy(row.player_name) \/ row.player_name = S_Unknown \/ Falsy(row.position)

\* one iteration of the loop over weekly_data.iterrows()
accumulate(player_stats, row) ==
    IF skip_row(row) THEN player_stats
    ELSE LET k == unique_key(row)
             ps1 == IF KeyIndex(player_stats, k) = 0
                    THEN Append(player_stats, [key |-> k, stats |-> new_stats(row)])
                    ELSE player_stats
             i == KeyIndex(ps1, k)
         IN [ps1 EXCEPT ![i].stats = add_row(@, row)]

\* player_stats after the first n rows
RECURSIVE aggregate(_, _)
aggregate(rows, n) ==
    IF n = 0 THEN << >> ELSE accumulate(aggregate(rows, n - 1), rows[n])

\* min_thresholds of is_fantasy_relevant
threshold_points(position) ==
    CASE position = S_QB -> 50
      [] position = S_RB -> 30
      [] position = S_WR -> 25
      [] position = S_TE -> 20
      [] OTHER -> 0

threshold_games(position) ==
    CASE position = S_QB -> 4
      [] position = S_RB -> 3
      [] position = S_WR -> 3
      [] position = S_TE -> 3
      [] OTHER -> 0

is_fantasy_relevant(stats) ==
    /\ stats.position \in {S_QB, S_RB, S_WR, S_TE}
    /\ stats.total_fantasy_points >= threshold_points(stats.position)
    /\ stats.games_played >= threshold_games(stats.position)

\* fantasy_players: the relevant accumulators, in dict (insertion) order
fantasy_players(player_stats) ==
    SelectSeq([i \in 1..Len(player_stats) |-> player_stats[i].stats],
              is_fantasy_relevant)

\* the keys of sorted_players
sorted_positions == {S_QB, S_RB, S_WR, S_TE}

\* list.sort(key=total_fantasy_points, reverse=True): stable, descending
goes_before_ascending(x, y) == x.total_fantasy_points < y.total_fantasy_points

goes_before(x, y) == x.total_fantasy_points > y.total_fantasy_points

\* stable insertion of x behind every element it does not go before
RECURSIVE insert_sorted(_, _)
insert_sorted(s, x) ==
    IF s = << >> THEN <<x>>
    ELSE IF goes_before(x, s[1]) THEN <<x>> \o s
    ELSE <<s[1]>> \o insert_sorted(Tail(s), x)

RECURSIVE sort_players(_)
sort_players(s) ==
    IF s = << >> THEN << >>
    ELSE insert_sorted(sort_players(SubSeq(s, 1, Len(s) - 1)), s[Len(s)])

\* sorted_players[position]
sorted_players_any_position(fp, position) == sort_players(fp)

sorted_players(fp, position) ==
    LET at(p) == p.position = position
    IN sort_players(SelectSeq(fp, at))

\* s[:count]
slice(s, count) ==
    IF count >= 0 THEN SubSeq(s, 1, Min(count, Len(s)))
    ELSE SubSeq(s, 1, Max(Len(s) + count, 0))

\* the loop over target_counts.items(), a sequence of <<position, count>>
RECURSIVE select_top(_, _, _)
select_top(fp, tc, n) ==
    IF n = 0 THEN << >>
    ELSE select_top(fp, tc, n - 1) \o
         (IF tc[n][1] \in sorted_positions
          THEN slice(sorted_players(fp, tc[n][1]), tc[n][2])
          ELSE << >>)

\* process_players(weekly_data, target_counts)
process_players(wd, tc) ==
    IF wd.t = "none" \/ wd.rows = << >> THEN << >>
    ELSE select_top(fantasy_players(aggregate(wd.rows, Len(wd.rows))), tc, Len(tc))

\* ---------------------------------------------------- create_player_json

\* value of key k in an insertion-ordered dict; d[k] = v keeps the place of an
\* existing key and appends a new one
DictSet(d, k, v) ==
    IF KeyIndex(d, k) = 0 THEN Append(d, [key |-> k, value |-> v])
    ELSE [d EXCEPT ![KeyIndex(d, k)].value = v]

\* round(num / den) to the nearest integer, ties to even, for num >= 0, den > 0
RoundHalfEven(num, den) ==
    LET q == num \div den
        r == num % den
    IN IF 2 * r < den THEN q
       ELSE IF 2 * r > den THEN q + 1
       ELSE IF q % 2 = 0 THEN q ELSE q + 1

Digits == <<"0", "1", "2", "3", "4", "5", "6", "7", "8", "9">>

RECURSIVE decimal(_)
decimal(n) ==
    IF n < 10 THEN <<Digits[n + 1]>>
    ELSE decimal(n \div 10) \o <<Digits[(n % 10) + 1]>>

\* f"{i:03d}": at least three digits, zero-padded
format_03d(i) ==
    LET d == decimal(i)
    IN IF Len(d) >= 3 THEN d
       ELSE IF Len(d) = 2 THEN <<"0">> \o d
       ELSE <<"0", "0">> \o d

\* player_name.replace(' ', '_').replace('.', '').replace("'", '')
RECURSIVE clean_name(_)
clean_name(s) ==
    IF s = << >> THEN << >>
    ELSE (IF s[1] = " " THEN <<"_">>
          ELSE IF s[1] \in {".", "'"} THEN << >>
          ELSE <<s[1]>>) \o clean_name(Tail(s))

\* player_id = f"{player_name}_{position}_{team}_{i:03d}", i counted from 0
player_id_without_index(player_data, i) ==
    clean_name(player_data.player_name) \o <<"_">> \o player_data.position
        \o <<"_">> \o player_data.team

player_id(player_data, i) ==
    clean_name(player_data.player_name) \o <<"_">> \o player_data.position
        \o <<"_">> \o player_data.team \o <<"_">> \o format_03d(i)

position_adp_base(position) ==
    CASE position = S_QB -> 80
      [] position = S_RB -> 40
      [] position = S_WR -> 50
      [] position = S_TE -> 120
      [] OTHER -> 100

\* the record create_player_json stores for the i-th processed player.
\* projected_points_ppr, total_fantasy_points_2024 and risk_score are in
\* tenths (the code rounds them to one decimal); last_updated is left out.
player_json(player_data, i) ==
    LET total_points == player_data.total_fantasy_points
        games_played == Max(player_data.games_played, 1)
    IN [player_name |-> player_data.player_name,
        position |-> player_data.position,
        team |-> player_data.team,
        projected_points_ppr |-> Num(RoundHalfEven(total_points * 170, games_played)),
        adp_overall |-> Num(position_adp_base(player_data.position) + (i % 20) * 8),
        adp_position |-> Num((i % 30) + 1),
        total_fantasy_points_2024 |-> total_points * 10,
        games_played_2024 |-> games_played,
        passing_yards_2024 |-> player_data.total_passing_yards,
        rushing_yards_2024 |-> player_data.total_rushing_yards,
        receiving_yards_2024 |-> player_data.total_receiving_yards,
        total_tds_2024 |-> player_data.total_passing_tds
                             + player_data.total_rushing_tds
                             + player_data.total_receiving_tds,
        risk_score |-> Min(RoundHalfEven(Abs(total_points * 17 - 100 * games_played),
                                         games_played), 100)]

\* players_dict after the first n processed players
RECURSIVE create_player_json_upto(_, _)
create_player_json_upto(processed_players, n) ==
    IF n = 0 THEN << >>
    ELSE DictSet(create_player_json_upto(processed_players, n - 1),
                 player_id(processed_players[n], n - 1),
                 player_json(processed_players[n], n - 1))

create_player_json(processed_players) ==
    create_player_json_upto(processed_players, Len(processed_players))

\* main's position_breakdown: the count of each listed position
breakdown_positions == <<S_QB, S_RB, S_WR, S_TE, S_K, S_DEF>>

position_breakdown(pd) ==
    [j \in 1..Len(breakdown_positions) |->
        Cardinality({i \in 1..Len(pd) : pd[i].value.position = breakdown_positions[j]})]

\* the database main writes to json_data/players.json
build_database(pd) ==
    [t |-> "database",
     metadata |-> [total_players |-> Len(pd),
                   position_breakdown |-> position_breakdown(pd)],
     players |-> pd]

\* ------------------------------------------------------ the AI analysis

LowerCase == <<"a", "b", "c", "d", "e", "f", "g", "h", "i", "j", "k", "l", "m", "n", "o", "p", "q", "r", "s", "t", "u", "v", "w", "x", "y", "z">>
UpperCase == <<"A", "B", "C", "D", "E", "F", "G", "H", "I", "J", "K", "L", "M", "N", "O", "P", "Q", "R", "S", "T", "U", "V", "W", "X", "Y", "Z">>

\* index of character c in alphabet a, 0 if it is not in it
CharIndex(a, c) ==
    IF \E i \in 1..Len(a) : a[i] = c THEN CHOOSE i \in 1..Len(a) : a[i] = c ELSE 0

\* str.upper() and str.lower()
upper(s) ==
    [i \in 1..Len(s) |->
        IF CharIndex(LowerCase, s[i]) = 0 THEN s[i]
        ELSE UpperCase[CharIndex(LowerCase, s[i])]]

lower(s) ==
    [i \in 1..Len(s) |->
        IF CharIndex(UpperCase, s[i]) = 0 THEN s[i]
        ELSE LowerCase[CharIndex(UpperCase, s[i])]]

\* name.lower().replace(' ', '_')
adp_key(name) ==
    LET l == lower(name)
    IN [i \in 1..Len(l) |-> IF l[i] = " " THEN "_" ELSE l[i]]

\* dict.get(key, default) for a string value and for a number value
Get(v, default) == IF v = Absent THEN default ELSE v
GetNum(v, default) == IF v.t = "absent" THEN default ELSE v

S_FA == <<"F", "A">>
S_NA == <<"N", "/", "A">>
S_NYJ == <<"N", "Y", "J">>
S_BUF == <<"B", "U", "F">>
S_RETIRED == <<"R", "E", "T", "I", "R", "E", "D">>
S_Justin_Fields == <<"J", "u", "s", "t", "i", "n", " ", "F", "i", "e", "l", "d", "s">>
S_Mike_Williams == <<"M", "i", "k", "e", " ", "W", "i", "l", "l", "i", "a", "m", "s">>

\* should_verify_roster(player_data): "True", "False", or the exception raised
should_verify_roster(player_data) ==
    LET adp == GetNum(player_data.adp_overall, Num(999))
        position == Get(player_data.position, << >>)
        team == Get(player_data.team, << >>)
    IN IF adp.t # "num" THEN "TypeError"
       ELSE IF adp.n <= 100 THEN "True"
       ELSE IF position \in {S_QB, S_RB, S_WR} /\ adp.n <= 150 THEN "True"
       ELSE IF team = None THEN "AttributeError"
       ELSE IF upper(team) \in {S_FA, S_NA, << >>, None} THEN "True"
       ELSE "False"

\* ai_verify_player_roster(player_data): the known corrections, else no change
ai_verify_player_roster(player_data) ==
    LET player_name == Get(player_data.player_name, << >>)
        current_team == Get(player_data.team, << >>)
    IN IF player_name = S_Justin_Fields
       THEN [updated |-> TRUE, current_team |-> S_NYJ, fantasy_impact |-> "Positive",
             team |-> S_NYJ, status |-> "starting_qb"]
       ELSE IF player_name = S_Mike_Williams
       THEN [updated |-> TRUE, current_team |-> S_RETIRED, fantasy_impact |-> "Critical",
             team |-> S_RETIRED, status |-> "retired"]
       ELSE [updated |-> FALSE, current_team |-> current_team,
             fantasy_impact |-> "No change detected", team |-> Absent, status |-> "absent"]

\* position_multipliers, times 10
position_multiplier(position) ==
    CASE position = S_QB -> 10
      [] position = S_RB -> 12
      [] position = S_WR -> 11
      [] position = S_TE -> 13
      [] OTHER -> 10

team_adjustment(team) ==
    CASE team = S_KC -> 10
      [] team = S_BUF -> 8
      [] team = S_SF -> 8
      [] team = S_NYJ -> 5
      [] team = S_RETIRED -> -999
      [] OTHER -> 0

\* analyze_player_with_ai(player_data).  projected_points_ppr is in tenths;
\* final_score is computed in hundredths and rounded to tenths (score).
\* adp_vs_projection is in tenths.
analyze_player_with_ai(player_data) ==
    LET position == Get(player_data.position, S_Unknown)
        team == Get(player_data.team, S_Unknown)
        adp == GetNum(player_data.adp_overall, Num(999))
        projected_points == GetNum(player_data.projected_points_ppr, Num(1000))
        adp_value == Max(200 - adp.n, 0) * 3
        final_score == (projected_points.n + adp_value) * position_multiplier(position)
                           + team_adjustment(team) * 100
        reason == IF final_score >= 14000 THEN "Elite"
                  ELSE IF final_score >= 9500 /\ final_score < 11500 THEN "Undervalued"
                  ELSE "Solid"
        retired == team = S_RETIRED
        score == IF retired THEN 0
                 ELSE IF final_score >= 0 THEN RoundHalfEven(final_score, 10)
                 ELSE -RoundHalfEven(-final_score, 10)
    IN IF adp.t # "num" \/ projected_points.t # "num"
       THEN [raised |-> "TypeError", score |-> 0, category_reason |-> "none",
             adp_vs_projection |-> 0]
       ELSE [raised |-> "none",
             score |-> score,
             category_reason |-> IF retired THEN "Player has retired - do not draft"
                                 ELSE reason,
             adp_vs_projection |-> projected_points.n - (200 - adp.n) * 10]

\* player.get(key) of a provider record: None when the key is missing
GetOrNone(v) == IF v.t = "absent" THEN NoneNum ELSE v

\* fetch_current_adp_data's "Convert to lookup dictionary", over the first n
\* records of the provider's player list
RECURSIVE adp_lookup(_, _)
adp_lookup(provider_players, n) ==
    IF n = 0 THEN << >>
    ELSE LET player == provider_players[n]
         IN DictSet(adp_lookup(provider_players, n - 1),
                    adp_key(Get(player.name, << >>)),
                    [adp_overall |-> GetOrNone(player.adp),
                     adp_position |-> GetOrNone(player.position_rank),
                     position |-> Get(player.position, None),
                     team |-> Get(player.team, None)])

\* the truth value of a fetched object: None and an empty dict are false
truthy_players_always(pd) == TRUE

truthy_players(pd) == pd.t = "dict"
truthy_adp(adp) == adp.t = "dict" /\ adp.lookup # << >>

S_ffc == "fantasy_football_calculator"

\* the analysis_results perform_enhanced_analysis starts from
initial_results(players) ==
    [t |-> "results",
     raised |-> "none",
     players |-> << >>,
     metadata |-> [players_analyzed |-> Len(players),
                   roster_corrections |-> 0,
                   adp_updates |-> 0],
     roster_corrections_made |-> << >>,
     must_starts |-> << >>,
     sleepers |-> << >>,
     busts |-> << >>,
     player_analysis |-> << >>,
     executive_summary |-> "unset"]

\* "AI-powered roster verification for key players": the player after the
\* correction, and the correction made (at most one)
verify_step(player_data) ==
    LET v == should_verify_roster(player_data)
        corrected_data == ai_verify_player_roster(player_data)
        made == v = "True" /\ corrected_data.updated
    IN [raised |-> IF v \in {"True", "False"} THEN "none" ELSE v,
        player |-> IF made
                   THEN [player_data EXCEPT !.team = corrected_data.team,
                                            !.status = corrected_data.status]
                   ELSE player_data,
        corrections |-> IF made
                        THEN <<[player |-> player_data.player_name,
                                old_team |-> Get(player_data.team, S_Unknown),
                                new_team |-> corrected_data.current_team,
                                fantasy_impact |-> corrected_data.fantasy_impact]>>
                        ELSE << >>]

\* "Update ADP data if available": the player after the update and whether
\* an ADP update is counted
adp_step(player_data, adp) ==
    LET k == adp_key(player_data.player_name)
        adp_info == adp.lookup[KeyIndex(adp.lookup, k)].value
        old_adp == GetNum(player_data.adp_overall, Num(999))
        new_adp == adp_info.adp_overall
    IN IF ~truthy_adp(adp) \/ KeyIndex(adp.lookup, k) = 0
       THEN [raised |-> "none", player |-> player_data, updates |-> 0]
       ELSE IF old_adp.t # "num" \/ new_adp.t # "num"
       THEN [raised |-> "TypeError", player |-> player_data, updates |-> 0]
       ELSE [raised |-> "none",
             player |-> [player_data EXCEPT !.adp_overall = new_adp,
                                            !.adp_position = adp_info.adp_position,
                                            !.adp_source = S_ffc],
             updates |-> IF Abs(old_adp.n - new_adp.n) > 10 THEN 1 ELSE 0]

\* the entry appended to must_starts, sleepers or busts (its reason text and
\* the adp_vs_projection a busts entry repeats are left out)
category_entry(id, player_data, a) ==
    [player_id |-> id,
     name |-> player_data.player_name,
     position |-> player_data.position,
     team |-> Get(player_data.team, None),
     score |-> a.score]

\* "Categorize players" and the bookkeeping of one iteration of "Process each
\* player": acc is analysis_results so far, with the players already processed
\* (acc.players) and the exception raised, if any; v, u and a are the outcomes
\* of the roster verification, the ADP update and the AI analysis
categorize(acc, id, v, u, a) ==
    LET rc == [acc EXCEPT
                 !.metadata.roster_corrections = @ + Len(v.corrections),
                 !.roster_corrections_made = @ \o v.corrections]
        ru == [rc EXCEPT !.metadata.adp_updates = @ + u.updates]
        e == category_entry(id, u.player, a)
    IN IF v.raised # "none"
       THEN [acc EXCEPT !.raised = v.raised,
                        !.players = Append(@, [key |-> id, value |-> v.player])]
       ELSE IF u.raised # "none"
       THEN [rc EXCEPT !.raised = u.raised,
                       !.players = Append(@, [key |-> id, value |-> v.player])]
       ELSE IF a.raised # "none"
       THEN [ru EXCEPT !.raised = a.raised,
                       !.players = Append(@, [key |-> id, value |-> u.player])]
       ELSE [ru EXCEPT
               !.players = Append(@, [key |-> id, value |-> u.player]),
               !.player_analysis = DictSet(@, id, a),
               !.must_starts = IF a.score >= 1400 THEN Append(@, e) ELSE @,
               !.sleepers = IF a.score < 1400 /\ a.score >= 950 /\ a.score < 1150
                            THEN Append(@, e) ELSE @,
               !.busts = IF /\ a.score < 1400
                            /\ ~(a.score >= 950 /\ a.score < 1150)
                            /\ a.adp_vs_projection < -200
                         THEN Append(@, e) ELSE @]

analyze_step(acc, id, v, u) ==
    categorize(acc, id, v, u, analyze_player_with_ai(u.player))

update_step(acc, id, v, adp) ==
    analyze_step(acc, id, v, adp_step(v.player, adp))

\* one iteration of "Process each player"; nothing runs after an exception
analysis_step(acc, entry, adp) ==
    IF acc.raised # "none" THEN acc
    ELSE update_step(acc, entry.key, verify_step(entry.value), adp)

\* analysis_results after the first n players
RECURSIVE analysis_loop(_, _, _)
analysis_loop(players, adp, n) ==
    IF n = 0 THEN initial_results(players)
    ELSE analysis_step(analysis_loop(players, adp, n - 1), players[n], adp)

generate_executive_summary(r) ==
    [total_players_analyzed |-> r.metadata.players_analyzed,
     roster_corrections_made |-> r.metadata.roster_corrections,
     adp_updates_applied |-> r.metadata.adp_updates,
     top_recommendation |-> IF r.must_starts # << >> THEN r.must_starts[1].player_id
                            ELSE None,
     top_sleeper |-> IF r.sleepers # << >> THEN r.sleepers[1].player_id ELSE None]

\* perform_enhanced_analysis(players_data, current_adp_data): the results, in
\* which raised names the exception that ended the loop; players holds the
\* player records as the loop left them (they are updated in place)
perform_enhanced_analysis(pd, adp) ==
    LET r == analysis_loop(pd.players, adp, Len(pd.players))
    IN IF r.raised # "none" THEN r
       ELSE [r EXCEPT !.executive_summary = generate_executive_summary(r)]

\* the players dict after the analysis: the processed players updated, the
\* others (after an exception) untouched
players_after(pd, r) ==
    [i \in 1..Len(pd.players) |->
        IF i <= Len(r.players) THEN r.players[i] ELSE pd.players[i]]

\* the summary enhanced_ai_analysis_with_roster_verification returns
analysis_summary(pd, adp, r) ==
    [message |-> "Enhanced AI analysis completed with roster verification",
     players_analyzed |-> Len(pd.players),
     roster_updates_made |-> r.metadata.roster_corrections,
     must_starts |-> Len(r.must_starts),
     sleepers |-> Len(r.sleepers),
     adp_source |-> IF truthy_adp(adp) THEN S_ffc ELSE "simulated"]

error_summary == [error |-> "Failed to fetch player data"]

\* ------------------------------------------------------------ input sets

MaxRows == 6
MaxCount == 2

S_a_b == <<"a", "_", "b">>
S_a == <<"a">>
S_a_sp_b == <<"a", " ", "b">>
S_b_RB == <<"b", "_", "R", "B">>

Row(name, position, team, pts, py, ry, rcy, ptd, rtd, rctd) ==
    [player_name |-> name, position |-> position, recent_team |-> team,
     fantasy_points_ppr |-> pts, passing_yards |-> py, rushing_yards |-> ry,
     receiving_yards |-> rcy, passing_tds |-> ptd, rushing_tds |-> rtd,
     receiving_tds |-> rctd]

\* the weekly rows the inputs are built from: two running backs, a row whose
\* name and position join to the first one's key, and a row the loop skips
RowSet ==
    { Row(S_a_b, S_RB, S_KC, Num(10), Num(0), Num(50), Num(5), Num(0), Num(1), Num(0)),
      Row(S_a, S_b_RB, S_SF, Num(20), Num(7), NoneNum, Num(3), Num(1), Num(0), Num(1)),
      Row(S_a_sp_b, S_RB, S_KC, Num(20), Num(0), Num(80), Num(10), Num(0), Num(2), Num(0)),
      Row(S_Unknown, S_RB, S_KC, Num(20), Num(0), Num(10), Num(0), Num(0), Num(0), Num(0)) }

SeqsUpTo(S, n) == UNION {[1..m -> S] : m \in 0..n}

WeeklyDataSet == {DataFrame(rows) : rows \in SeqsUpTo(RowSet, MaxRows)}

\* main's target_counts
main_target_counts ==
    << <<S_QB, 35>>, <<S_RB, 75>>, <<S_WR, 85>>, <<S_TE, 35>> >>

TargetCountsSet ==
    {main_target_counts} \cup
    { << <<S_K, c>>, <<S_RB, c>> >> : c \in 0..MaxCount }

\* values of the variables before the code assigns them
Unset == [t |-> "unset"]
UnsetFrame == [t |-> "unset", rows |-> << >>]
UnsetPlayers == [t |-> "unset", players |-> << >>]
UnsetAdp == [t |-> "unset", lookup |-> << >>]

\* the frames main's load returns in the model: up to MaxReps weekly rows of
\* one player followed by up to MaxReps of another
MaxReps == 3

Rep(r, n) == [i \in 1..n |-> r]

MainWeeklySet ==
    {DataFrame(Rep(r1, n) \o Rep(r2, m)) :
        r1 \in RowSet, r2 \in RowSet, n \in 0..MaxReps, m \in 0..MaxReps}

\* the player records of a fetched players.json
MaxPlayers == 2

S_Joe_B == <<"J", "o", "e", " ", "B">>
S_fa == <<"f", "a">>

Player(name, position, team, adp, projected) ==
    [player_name |-> name, position |-> position, team |-> team,
     adp_overall |-> adp, projected_points_ppr |-> projected,
     adp_position |-> AbsentNum, adp_source |-> Absent, status |-> "absent"]

NamedPlayers ==
    { <<S_Mike_Williams, S_WR, AbsentNum>>,
      <<S_Justin_Fields, S_QB, AbsentNum>>,
      <<S_Joe_B, S_TE, Num(1500)>> }

PlayerSet ==
    { Player(np[1], np[2], team, adp, np[3]) :
        np \in NamedPlayers,
        team \in {Absent, None, S_fa, S_KC},
        adp \in {AbsentNum, Num(50), Num(120)} }

MainPlayerSet ==
    { Player(S_Mike_Williams, S_WR, S_KC, Num(50), AbsentNum),
      Player(S_Joe_B, S_TE, None, AbsentNum, Num(1500)),
      Player(S_Joe_B, S_TE, S_KC, Num(120), Num(1500)) }

\* the dict {"p1": ..., "p2": ...} of a sequence of player records
PlayersDict(players) ==
    [i \in 1..Len(players) |-> [key |-> <<"p">> \o decimal(i), value |-> players[i]]]

\* what response.json() of the players fetch can be: {}, or a dict with players
PlayersDataOver(S) ==
    {[t |-> "empty", players |-> << >>]} \cup
    {[t |-> "dict", players |-> PlayersDict(players)] :
        players \in SeqsUpTo(S, MaxPlayers)}

\* the player list of the ADP provider's response
ProviderPlayer(name, adp, rank) ==
    [name |-> name, adp |-> adp, position_rank |-> rank,
     position |-> Absent, team |-> Absent]

AdpResponseSet ==
    { << >>,
      <<ProviderPlayer(S_Joe_B, Num(20), Num(2))>>,
      <<ProviderPlayer(S_Joe_B, AbsentNum, Num(2))>>,
      <<ProviderPlayer(S_Mike_Williams, Num(55), AbsentNum),
        ProviderPlayer(S_Joe_B, Num(125), Num(9))>> }

MainAdpResponseSet ==
    { <<ProviderPlayer(S_Joe_B, Num(20), Num(2))>> }

\* ------------------------------------------- process_players as a function

InitProcess ==
    /\ pc = "process_players"
    /\ weekly_data \in WeeklyDataSet
    /\ target_counts \in TargetCountsSet
    /\ final_players = << >>
    /\ players_dict = << >>
    /\ database = Unset
    /\ files = {}
    /\ players_data = UnsetPlayers
    /\ current_adp_data = UnsetAdp
    /\ analysis_results = Unset
    /\ raised = "none"
    /\ result = "none"

CallProcessPlayers ==
    /\ pc = "process_players"
    /\ final_players' = process_players(weekly_data, target_counts)
    /\ pc' = "returned"
    /\ UNCHANGED <<weekly_data, target_counts, players_dict, database, files,
                   players_data, current_adp_data, analysis_results, raised, result>>

NextProcess == CallProcessPlayers

SpecProcess == InitProcess /\ [][NextProcess]_vars

\* ------------------------------------------------------------------ main

PlayersFile == "json_data/players.json"
InsightsFile == "json_data/ai_insights.json"

Init ==
    /\ pc = "main"
    /\ weekly_data = UnsetFrame
    /\ target_counts = main_target_counts
    /\ final_players = << >>
    /\ players_dict = << >>
    /\ database = Unset
    /\ files = {}
    /\ players_data = UnsetPlayers
    /\ current_adp_data = UnsetAdp
    /\ analysis_results = Unset
    /\ raised = "none"
    /\ result = "none"

\* load_nfl_data(): the frame the library returns, or None when the import
\* raises (the exception is caught)
LoadNflData(frames) ==
    /\ pc = "main"
    /\ \/ \E wd \in frames : weekly_data' = wd
       \/ weekly_data' = NoneFrame
    /\ pc' = "loaded"
    /\ UNCHANGED <<target_counts, final_players, players_dict, database, files,
                   players_data, current_adp_data, analysis_results, raised, result>>

\* main: "if weekly_data is None: return"
MainReturnNoData ==
    /\ pc = "loaded"
    /\ weekly_data.t = "none"
    /\ pc' = "done"
    /\ UNCHANGED <<weekly_data, target_counts, final_players, players_dict, database,
                   files, players_data, current_adp_data, analysis_results, raised,
                   result>>

\* main: processed_players = process_players(weekly_data, target_counts)
MainProcessPlayers ==
    /\ pc = "loaded"
    /\ weekly_data.t # "none"
    /\ final_players' = process_players(weekly_data, target_counts)
    /\ pc' = "processed"
    /\ UNCHANGED <<weekly_data, target_counts, players_dict, database, files,
                   players_data, current_adp_data, analysis_results, raised, result>>

\* main: "if not processed_players: return"
MainReturnNoPlayers ==
    /\ pc = "processed"
    /\ final_players = << >>
    /\ pc' = "done"
    /\ UNCHANGED <<weekly_data, target_counts, final_players, players_dict, database,
                   files, players_data, current_adp_data, analysis_results, raised,
                   result>>

\* main: create_player_json, the database structure, json.dump to players.json
MainBuildDatabase ==
    /\ pc = "processed"
    /\ final_players # << >>
    /\ players_dict' = create_player_json(final_players)
    /\ database' = build_database(players_dict')
    /\ files' = files \cup {PlayersFile}
    /\ pc' = "analysis"
    /\ UNCHANGED <<weekly_data, target_counts, final_players, players_data,
                   current_adp_data, analysis_results, raised, result>>

\* fetch_github_player_data(): the parsed JSON, or None when the request raises
FetchGithubPlayerData(responses) ==
    /\ pc = "analysis"
    /\ \/ \E pd \in responses : players_data' = pd
       \/ players_data' = [t |-> "none", players |-> << >>]
    /\ pc' = "fetched_players"
    /\ UNCHANGED <<weekly_data, target_counts, final_players, players_dict, database,
                   files, current_adp_data, analysis_results, raised, result>>

\* "if not players_data: return {'error': ...}"
AnalysisNoPlayers ==
    /\ pc = "fetched_players"
    /\ ~truthy_players(players_data)
    /\ result' = error_summary
    /\ pc' = "done"
    /\ UNCHANGED <<weekly_data, target_counts, final_players, players_dict, database,
                   files, players_data, current_adp_data, analysis_results, raised>>

\* fetch_current_adp_data(): the lookup built from the response, or None when
\* the request raises
FetchCurrentAdpData(responses) ==
    /\ pc = "fetched_players"
    /\ truthy_players(players_data)
    /\ \/ \E resp \in responses :
            current_adp_data' = [t |-> "dict", lookup |-> adp_lookup(resp, Len(resp))]
       \/ current_adp_data' = [t |-> "none", lookup |-> << >>]
    /\ pc' = "fetched_adp"
    /\ UNCHANGED <<weekly_data, target_counts, final_players, players_dict, database,
                   files, players_data, analysis_results, raised, result>>

\* perform_enhanced_analysis(players_data, current_adp_data); an exception it
\* raises is caught nowhere and ends the run
PerformEnhancedAnalysis ==
    /\ pc = "fetched_adp"
    /\ LET r == perform_enhanced_analysis(players_data, current_adp_data)
       IN /\ players_data' = [players_data EXCEPT !.players = players_after(players_data, r)]
          /\ IF r.raised # "none"
             THEN /\ raised' = r.raised
                  /\ pc' = "done"
                  /\ UNCHANGED analysis_results
             ELSE /\ analysis_results' = r
                  /\ pc' = "analysed"
                  /\ UNCHANGED raised
    /\ UNCHANGED <<weekly_data, target_counts, final_players, players_dict, database,
                   files, current_adp_data, result>>

\* save_enhanced_analysis(analysis_results): json.dump to ai_insights.json
SaveEnhancedAnalysis ==
    /\ pc = "analysed"
    /\ files' = files \cup {InsightsFile}
    /\ pc' = "saved"
    /\ UNCHANGED <<weekly_data, target_counts, final_players, players_dict, database,
                   players_data, current_adp_data, analysis_results, raised, result>>

\* the summary returned to main
ReturnSummary ==
    /\ pc = "saved"
    /\ result' = analysis_summary(players_data, current_adp_data, analysis_results)
    /\ pc' = "done"
    /\ UNCHANGED <<weekly_data, target_counts, final_players, players_dict, database,
                   files, players_data, current_adp_data, analysis_results, raised>>

Next ==
    \/ LoadNflData(MainWeeklySet)
    \/ MainReturnNoData
    \/ MainProcessPlayers
    \/ MainReturnNoPlayers
    \/ MainBuildDatabase
    \/ FetchGithubPlayerData(PlayersDataOver(MainPlayerSet))
    \/ AnalysisNoPlayers
    \/ FetchCurrentAdpData(MainAdpResponseSet)
    \/ PerformEnhancedAnalysis
    \/ SaveEnhancedAnalysis
    \/ ReturnSummary

Spec == Init /\ [][Next]_vars

\* ------------- enhanced_ai_analysis_with_roster_verification on its own

InitAnalysis ==
    /\ pc = "analysis"
    /\ weekly_data = UnsetFrame
    /\ target_counts = main_target_counts
    /\ final_players = << >>
    /\ players_dict = << >>
    /\ database = Unset
    /\ files = {}
    /\ players_data = UnsetPlayers
    /\ current_adp_data = UnsetAdp
    /\ analysis_results = Unset
    /\ raised = "none"
    /\ result = "none"

NextAnalysis ==
    \/ FetchGithubPlayerData(PlayersDataOver(PlayerSet))
    \/ AnalysisNoPlayers
    \/ FetchCurrentAdpData(AdpResponseSet)
    \/ PerformEnhancedAnalysis
    \/ SaveEnhancedAnalysis
    \/ ReturnSummary

SpecAnalysis == InitAnalysis /\ [][NextAnalysis]_vars

\* ------------------------------------------------ claims on process_players

\* the rows of the input frame
Rows == weekly_data.rows

\* the indices of the returned records carrying the pair (name, position)
RecordsOf(name, position) ==
    {i \in 1..Len(final_players) :
        /\ final_players[i].player_name = name
        /\ final_players[i].position = position}

\* the indices of the input rows carrying the pair (name, position)
RowsOf(name, position) ==
    {i \in 1..Len(Rows) :
        /\ Rows[i].player_name = name
        /\ Rows[i].position = position}

RECURSIVE SumOver(_, _)
SumOver(I, f) ==
    IF I = {} THEN 0
    ELSE LET i == CHOOSE j \in I : TRUE IN f[i] + SumOver(I \ {i}, f)

\* C1 as stated: every (player_name, position) pair occurring in the rows
\* has exactly one record in the list process_players returns.
C1_ExactlyOneRecordPerPair ==
    pc = "returned" =>
        \A i \in 1..Len(Rows) :
            Cardinality(RecordsOf(Rows[i].player_name, Rows[i].position)) = 1

\* C1 amended: every (player_name, position) pair occurring in the rows has
\* at most one record in the list process_players returns (never two); it
\* has none when its player is filtered out or not selected.
C1_AtMostOneRecordPerPair ==
    pc = "returned" =>
        \A i \in 1..Len(Rows) :
            Cardinality(RecordsOf(Rows[i].player_name, Rows[i].position)) <= 1

\* a run where one pair of the rows got its record and another valid pair got none
C1_Witness ==
    /\ pc = "returned"
    /\ \E i, j \in 1..Len(Rows) :
          /\ ~skip_row(Rows[j])
          /\ Cardinality(RecordsOf(Rows[i].player_name, Rows[i].position)) = 1
          /\ Cardinality(RecordsOf(Rows[j].player_name, Rows[j].position)) = 0

\* C2: every returned record's totals are the sums, and its games_played the
\* number, of exactly the input rows that carry the record's player_name and
\* position.
C2_TotalsAreSumsOfOwnRows ==
    pc = "returned" =>
        \A k \in 1..Len(final_players) :
            LET r == final_players[k]
                own == RowsOf(r.player_name, r.position)
                pts == [i \in 1..Len(Rows) |-> OrZero(Rows[i].fantasy_points_ppr)]
                py == [i \in 1..Len(Rows) |-> OrZero(Rows[i].passing_yards)]
                ry == [i \in 1..Len(Rows) |-> OrZero(Rows[i].rushing_yards)]
                rcy == [i \in 1..Len(Rows) |-> OrZero(Rows[i].receiving_yards)]
                ptd == [i \in 1..Len(Rows) |-> OrZero(Rows[i].passing_tds)]
                rtd == [i \in 1..Len(Rows) |-> OrZero(Rows[i].rushing_tds)]
                rctd == [i \in 1..Len(Rows) |-> OrZero(Rows[i].receiving_tds)]
            IN /\ r.total_fantasy_points = SumOver(own, pts)
               /\ r.total_passing_yards = SumOver(own, py)
               /\ r.total_rushing_yards = SumOver(own, ry)
               /\ r.total_receiving_yards = SumOver(own, rcy)
               /\ r.total_passing_tds = SumOver(own, ptd)
               /\ r.total_rushing_tds = SumOver(own, rtd)
               /\ r.total_receiving_tds = SumOver(own, rctd)
               /\ r.games_played = Cardinality(own)

\* the fantasy-relevant players process_players chooses among
Relevant == 
    IF weekly_data.t = "none" THEN << >>
    ELSE fantasy_players(aggregate(Rows, Len(Rows)))

\* C9: for every position of target_counts the result holds at most
\* target_counts[position] records of it, and no fantasy-relevant player of
\* that position left out of the result has strictly more
\* total_fantasy_points than one included in it.
C9_TopByPointsWithinCount ==
    pc = "returned" =>
        \A t \in 1..Len(target_counts) :
            LET position == target_counts[t][1]
                count == target_counts[t][2]
                chosen == {i \in 1..Len(final_players) :
                              final_players[i].position = position}
            IN /\ Cardinality(chosen) <= count
               /\ \A x \in 1..Len(Relevant) :
                     (/\ Relevant[x].position = position
                      /\ Relevant[x] \notin Range(final_players))
                     => \A i \in chosen :
                            Relevant[x].total_fantasy_points
                                <= final_players[i].total_fantasy_points

\* a run where the count cut a relevant player with fewer points off the result
C9_Witness ==
    /\ pc = "returned"
    /\ \E t \in 1..Len(target_counts), x \in 1..Len(Relevant),
          i \in 1..Len(final_players) :
          /\ Relevant[x].position = target_counts[t][1]
          /\ Relevant[x] \notin Range(final_players)
          /\ final_players[i].position = target_counts[t][1]
          /\ Relevant[x].total_fantasy_points
                < final_players[i].total_fantasy_points

\* ------------------------------------------------------- claims on main


C4_MetadataCountsExact ==
    database.t = "database" =>
        /\ database.metadata.total_players = Len(final_players)
        /\ SumSeq(database.metadata.position_breakdown)
              = database.metadata.total_players

\* a database built from two processed players
C4_Witness ==
    /\ database.t = "database"
    /\ Len(final_players) = 2
    /\ database.metadata.total_players = 2

\* --------------------------------------------------- claims on the analysis

\* the ids listed in a category of the analysis results
IdsOf(category) == {category[i].player_id : i \in 1..Len(category)}

\* the players ai_verify_player_roster corrected to team RETIRED
CorrectedToRetired ==
    {i \in 1..Len(players_data.players) :
        /\ players_data.players[i].value.team = S_RETIRED
        /\ \E c \in 1..Len(analysis_results.roster_corrections_made) :
              /\ analysis_results.roster_corrections_made[c].player
                    = players_data.players[i].value.player_name
              /\ analysis_results.roster_corrections_made[c].new_team = S_RETIRED}

\* C5: a player whose roster was corrected to team RETIRED is in none of
\* must_starts, sleepers and busts after perform_enhanced_analysis.
C5_RetiredInNoCategory ==
    analysis_results.t = "results" =>
        \A i \in CorrectedToRetired :
            players_data.players[i].key \notin
                IdsOf(analysis_results.must_starts)
                    \cup IdsOf(analysis_results.sleepers)
                    \cup IdsOf(analysis_results.busts)

\* a player record with no team assigned
NoTeam(player_data) ==
    \/ player_data.team \in {Absent, None}
    \/ upper(player_data.team) \in {<< >>, S_FA, S_NA}

\* C6: should_verify_roster returns True, without raising, for every player
\* record that has no team assigned, so that no analysis ends in an
\* AttributeError and every such record left by the analysis is verified.
C6_NoTeamIsVerified ==
    pc \in {"analysed", "saved", "done"} =>
        /\ raised # "AttributeError"
        /\ \A i \in 1..Len(players_data.players) :
              NoTeam(players_data.players[i].value)
                  => should_verify_roster(players_data.players[i].value) = "True"

\* the players whose ADP lookup entry carries no ADP value
ValuelessEntry ==
    {i \in 1..Len(players_data.players) :
        LET k == adp_key(players_data.players[i].value.player_name)
        IN /\ KeyIndex(current_adp_data.lookup, k) # 0
           /\ current_adp_data.lookup[KeyIndex(current_adp_data.lookup, k)]
                 .value.adp_overall.t = "none"}

\* C7: when the ADP lookup has an entry without an ADP value for a player,
\* perform_enhanced_analysis falls back to the old ADP: the ADP update raises
\* nothing, the player's adp_overall stays as it was and no ADP update is
\* counted for that player.
C7_ValuelessAdpFallsBack ==
    [][(pc = "fetched_adp" /\ ValuelessEntry # {})
          => /\ raised' # "TypeError"
             /\ raised' = "none"
                  => /\ \A i \in ValuelessEntry :
                           players_data'.players[i].value.adp_overall
                              = players_data.players[i].value.adp_overall
                     /\ analysis_results'.metadata.adp_updates
                           <= Len(players_data.players) - Cardinality(ValuelessEntry)]_vars

\* C8: when the ADP fetch failed and the players fetch succeeded, the analysis
\* runs over every player and is saved, no player's adp_overall, adp_position
\* or adp_source changes, adp_updates stays 0 and the summary reports
\* adp_source "simulated".
C8_AdpFailureLeavesAdpAlone ==
    /\ [][(pc = "fetched_adp" /\ current_adp_data.t = "none")
            => /\ raised' = "none"
               /\ Len(analysis_results'.player_analysis) = Len(players_data.players)
               /\ analysis_results'.metadata.adp_updates = 0
               /\ \A i \in 1..Len(players_data.players) :
                     /\ players_data'.players[i].value.adp_overall
                           = players_data.players[i].value.adp_overall
                     /\ players_data'.players[i].value.adp_position
                           = players_data.players[i].value.adp_position
                     /\ players_data'.players[i].value.adp_source
                           = players_data.players[i].value.adp_source]_vars
    /\ []((pc = "done" /\ current_adp_data.t = "none")
            => /\ raised = "none"
               /\ InsightsFile \in files
               /\ result.adp_source = "simulated")

====
